---------------------------- MODULE Spec2Model ----------------------------
(***************************************************************************)
(* flask_sse: server-sent events relayed from a Redis pub/sub channel.     *)
(*                                                                         *)
(* Text is a sequence of one-character strings, so that splitting, joining *)
(* and prefixing are computed and not assumed.  A Python value that may be *)
(* None is a sequence of length at most one: None == <<>> and a value v is *)
(* <<v>>.  A dict is a function whose domain is its set of keys.           *)
(***************************************************************************)
EXTENDS Integers, Sequences, FiniteSets, TLC

VARIABLES
    cfg,        \* current_app.config: SSE_HEALTH_CHECK, SSE_REDIS_CHANNEL_KEY_PREFIX, SSE_TIMEOUT
    live,       \* the sessions (HTTP requests) this run may open
    quota,      \* how many publish calls this run follows
    keys,       \* the keys that exist in the Redis store
    pc,         \* where each session's view / generator stands
    kind,       \* which generator backs the session: "blocks" or "messages"
    chan,       \* the channel the view resolved for the session
    timeout,    \* the local variable timeout of blocks()
    queue,      \* notifications the transport holds for the session's pubsub handle
    dropped,    \* how many notifications the handle still held when it was released
    pulled,     \* the notifications the session's pulls returned, in order
    out,        \* the chunks the generator yielded, in order
    body,       \* the text the HTTP server wrote to the client
    resp,       \* the response object the view returned
    subs,       \* the channels of the session's subscribe calls, in order
    unsubs,     \* the channels of the session's unsubscribe calls, in order
    outcome,    \* how the generator ended
    clientGone, \* the client closed or aborted the HTTP connection
    published,  \* how many times the transport's publish was called, per channel
    cleanup,    \* what the unsubscribe call of the session's finally clause did
    msg,        \* a Message an application built, and what its methods returned
    calls       \* how often the session called done_streaming and pulled, where followed

vars == <<cfg, live, quota, keys, pc, kind, chan, timeout, queue, dropped, pulled, out, body,
          resp, subs, unsubs, outcome, clientGone, published, cleanup, msg, calls>>

-----------------------------------------------------------------------------
(* Bounds of the model.                                                    *)

\* Sessions are numbered 1..NSessions.
NSessions == 2
\* Calls of publish / control / a foreign publisher in one run.
MaxPublish == 2
\* The same, in the runs checked for liveness.
MaxPublishFair == 1
\* Health-check chunks a session may emit before its timeouts stop being followed.
MaxHealthChecks == 1
\* Pulls of a session in the runs that count them.
MaxPulls == 4
\* The largest retry of the Messages studied by themselves.
MaxRetry == 10

\* flask_sse.py:241, the default polling interval.
DefaultTimeout == 15
\* An explicit SSE_TIMEOUT.
ExplicitTimeout == 5

Sessions == 1..NSessions

-----------------------------------------------------------------------------
(* Python values.                                                          *)

None == <<>>
Some(v) == <<v>>

\* bool(s) of a str.
StrTruthy(s) == Len(s) > 0
\* bool(o) of an optional str: None and "" are falsy.
OptStrTruthy(o) == o # None /\ StrTruthy(o[1])
\* bool(o) of an optional int: None and 0 are falsy.
OptIntTruthy(o) == o # None /\ o[1] # 0

\* "a or b" for an optional str a and a str b.
OrDefault(o, d) == IF OptStrTruthy(o) THEN o[1] ELSE d

RECURSIVE Flatten(_)
Flatten(ss) == IF ss = <<>> THEN <<>> ELSE Head(ss) \o Flatten(Tail(ss))

\* sep.join(lines)
RECURSIVE Join(_, _)
Join(lines, sep) ==
    IF lines = <<>> THEN <<>>
    ELSE IF Len(lines) = 1 THEN lines[1]
    ELSE lines[1] \o sep \o Join(Tail(lines), sep)

LF == "\n"
CR == "\r"

\* str.splitlines(): a line ends at "\n", "\r" or "\r\n"; the text after the
\* last line end is a line only when it is not empty.
RECURSIVE SplitFrom(_, _)
SplitFrom(s, cur) ==
    IF s = <<>> THEN (IF cur = <<>> THEN <<>> ELSE <<cur>>)
    ELSE IF Head(s) = CR /\ Len(s) > 1 /\ s[2] = LF
         THEN <<cur>> \o SplitFrom(Tail(Tail(s)), <<>>)
    ELSE IF Head(s) = LF \/ Head(s) = CR
         THEN <<cur>> \o SplitFrom(Tail(s), <<>>)
    ELSE SplitFrom(Tail(s), cur \o <<Head(s)>>)

SplitLines(s) == SplitFrom(s, <<>>)

\* str(n) of a natural number.
Digit(d) == CASE d = 0 -> "0" [] d = 1 -> "1" [] d = 2 -> "2" [] d = 3 -> "3"
              [] d = 4 -> "4" [] d = 5 -> "5" [] d = 6 -> "6" [] d = 7 -> "7"
              [] d = 8 -> "8" [] d = 9 -> "9"
RECURSIVE IntStr(_)
IntStr(n) == IF n < 10 THEN <<Digit(n)>> ELSE IntStr(n \div 10) \o <<Digit(n % 10)>>

-----------------------------------------------------------------------------
(* The texts of the model.                                                 *)

T_sse == <<"s", "s", "e">>
T_garden == <<"g", "a", "r", "d", "e", "n">>
T_thing == <<"t", "h", "i", "n", "g">>
T_example == <<"e", "x", "a", "m", "p", "l", "e">>
T_whee == <<"w", "h", "e", "e">>
T_abc == <<"a", "b", "c">>
T_HC == <<"H", "C">>
T_prefix == <<"p", ":">>
T_disconnect == <<"d", "i", "s", "c", "o", "n", "n", "e", "c", "t">>
T_healthcheck == <<"h", "e", "a", "l", "t", "h", "-", "c", "h", "e", "c", "k">>
T_notsupported == <<"n", "o", "t", "-", "s", "u", "p", "p", "o", "r", "t", "e", "d">>
T_data == <<"d", "a", "t", "a", ":">>
T_event == <<"e", "v", "e", "n", "t", ":">>
T_id == <<"i", "d", ":">>
T_retry == <<"r", "e", "t", "r", "y", ":">>

Channels == {T_sse, T_garden}

-----------------------------------------------------------------------------
(* class Message                                                           *)

\* Message.__init__
Message(data, type, id, retry) == [data |-> data, type |-> type, id |-> id, retry |-> retry]

\* Message.to_dict: data always, the others when truthy.
ToDictKeys(m) ==
    {"data"} \cup (IF OptStrTruthy(m.type) THEN {"type"} ELSE {})
             \cup (IF OptStrTruthy(m.id) THEN {"id"} ELSE {})
             \cup (IF OptIntTruthy(m.retry) THEN {"retry"} ELSE {})

ToDict(m) ==
    [k \in ToDictKeys(m) |->
        CASE k = "data" -> m.data
          [] k = "type" -> m.type[1]
          [] k = "id" -> m.id[1]
          [] k = "retry" -> m.retry[1]]

\* dict.get(key): None when the key is absent.
Get(d, k) == IF k \in DOMAIN d THEN Some(d[k]) ELSE None

\* Message(**d) raises TypeError unless d has "data" and only known keys.
CanConstruct(d) == "data" \in DOMAIN d /\ DOMAIN d \subseteq {"data", "type", "id", "retry"}

\* Message(**d)
FromDict(d) == Message(d["data"], Get(d, "type"), Get(d, "id"), Get(d, "retry"))

\* The event line is appended after the data lines instead of inserted first.
FormatTypeAfterData(m) ==
    LET dataLines == [i \in 1..Len(SplitLines(m.data)) |-> T_data \o SplitLines(m.data)[i]]
        withType == IF OptStrTruthy(m.type) THEN Append(dataLines, T_event \o m.type[1])
                    ELSE dataLines
        withId == IF OptStrTruthy(m.id) THEN Append(withType, T_id \o m.id[1]) ELSE withType
        lines == IF OptIntTruthy(m.retry) THEN Append(withId, T_retry \o IntStr(m.retry[1]))
                 ELSE withId
    IN  Join(lines, <<LF>>) \o <<LF, LF>>

\* Message.__str__ / Message.block
Format(m) ==
    LET dataLines == [i \in 1..Len(SplitLines(m.data)) |-> T_data \o SplitLines(m.data)[i]]
        withType == IF OptStrTruthy(m.type) THEN <<T_event \o m.type[1]>> \o dataLines
                    ELSE dataLines
        withId == IF OptStrTruthy(m.id) THEN Append(withType, T_id \o m.id[1]) ELSE withType
        lines == IF OptIntTruthy(m.retry) THEN Append(withId, T_retry \o IntStr(m.retry[1]))
                 ELSE withId
    IN  Join(lines, <<LF>>) \o <<LF, LF>>

-----------------------------------------------------------------------------
(* Configuration and the Redis store.                                      *)

HealthCheckTexts == {None, Some(<<>>), Some(T_HC)}
Prefixes == {None, Some(<<>>), Some(T_prefix)}
Timeouts == {None, Some(ExplicitTimeout)}
Configs == [hc : HealthCheckTexts, prefix : Prefixes, timeout : Timeouts]

\* The view's "channel" query parameter: absent, empty or a name.
ChannelParams == {None, Some(<<>>), Some(T_garden)}

\* The keys another party creates or deletes in the store: the key of each
\* channel under the configured prefix.  Without a prefix no key is ever read,
\* and the store is left out.
StoreKeys == IF cfg.prefix = None THEN {} ELSE {cfg.prefix[1] \o c : c \in Channels}

\* The test is inverted: done while the key exists.
DoneStreamingInverted(channel) ==
    IF cfg.prefix = None THEN None
    ELSE Some((cfg.prefix[1] \o channel) \in keys)

\* The prefix is left out of the key.
DoneStreamingBareChannel(channel) ==
    IF cfg.prefix = None THEN None
    ELSE Some(~(channel \in keys))

\* ServerSentEventsBlueprint.done_streaming: None without a prefix, else
\* whether the key prefix + channel is absent from the store.
DoneStreaming(channel) ==
    IF cfg.prefix = None THEN None
    ELSE Some(~((cfg.prefix[1] \o channel) \in keys))

\* bool(x) of done_streaming's result: None and False are falsy.
IsDone(channel) == DoneStreaming(channel) = Some(TRUE)

\* blocks(): the health-check chunk, or None when SSE_HEALTH_CHECK is unset.
HealthCheck ==
    IF cfg.hc # None THEN Some(<<":">> \o cfg.hc[1] \o <<LF>>) ELSE None

\* The test reads the configured text, not the chunk built from it.
HealthCheckOnConfiguredText == OptStrTruthy(cfg.hc)

\* "if health_check:" in blocks(): the chunk is there and not the empty text.
HealthCheckOn == OptStrTruthy(HealthCheck)

\* Line 240 calls done_streaming whatever stands before it in the condition.
TimeoutAsksAlways == TRUE

\* blocks(), line 240: "timeout is None and (health_check or
\* self.done_streaming(channel) is not None)" calls done_streaming only when
\* what stands before it did not decide the condition.
TimeoutAsks == cfg.timeout = None /\ ~HealthCheckOn

\* The default applies when the configured text is not empty, not when the
\* chunk built from it is not.
ComputeTimeoutConfiguredText(channel) ==
    IF cfg.timeout = None /\ (OptStrTruthy(cfg.hc) \/ DoneStreaming(channel) # None)
    THEN Some(DefaultTimeout)
    ELSE cfg.timeout

\* blocks(): the timeout handed to get_message.
ComputeTimeout(channel) ==
    IF cfg.timeout = None /\ (HealthCheckOn \/ DoneStreaming(channel) # None)
    THEN Some(DefaultTimeout)
    ELSE cfg.timeout

-----------------------------------------------------------------------------
(* Transport notifications and envelopes.                                  *)

SubscribeAck == [type |-> "subscribe", data |-> [count |-> 1]]
Notification(payload) == [type |-> "message", data |-> payload]

ControlEnvelope(command) == "sse-control" :> command

\* What publish() is called with in this model.
E_thing == Message(T_thing, Some(T_example), None, None)
E_whee == Message(T_whee, None, Some(T_abc), None)
PublishInputs == {E_thing, E_whee}
Commands == {T_disconnect, T_healthcheck, T_notsupported}
\* A payload of a foreign publisher that is neither envelope shape.
ForeignPayloads == {"foo" :> T_abc}

IsControl(n) == n.type = "message" /\ "sse-control" \in DOMAIN n.data
IsCommand(n, c) == IsControl(n) /\ n.data["sse-control"] = c
IsEvent(n) == n.type = "message" /\ ~IsControl(n) /\ CanConstruct(n.data)

-----------------------------------------------------------------------------
(* Initial state.                                                          *)

NoResponse == [status |-> 0, mimetype |-> "", streamed |-> FALSE]

\* No Message is under study: the runs of the streaming endpoints.
NoMessage == [event |-> None, dict |-> None, back |-> None, text |-> None]

InitSessions ==
    /\ pc = [s \in Sessions |-> "idle"]
    /\ kind = [s \in Sessions |-> "none"]
    /\ chan = [s \in Sessions |-> <<>>]
    /\ timeout = [s \in Sessions |-> None]
    /\ queue = [s \in Sessions |-> <<>>]
    /\ dropped = [s \in Sessions |-> 0]
    /\ pulled = [s \in Sessions |-> <<>>]
    /\ out = [s \in Sessions |-> <<>>]
    /\ body = [s \in Sessions |-> <<>>]
    /\ resp = [s \in Sessions |-> NoResponse]
    /\ subs = [s \in Sessions |-> <<>>]
    /\ unsubs = [s \in Sessions |-> <<>>]
    /\ outcome = [s \in Sessions |-> "none"]
    /\ clientGone = [s \in Sessions |-> FALSE]
    /\ published = [c \in Channels |-> 0]
    /\ cleanup = [s \in Sessions |-> "none"]

\* The configurations of the main specification: every health-check text and
\* timeout, without a prefix and with the empty prefix.
SpecConfigs == {c \in Configs : c.prefix \in {None, Some(<<>>)}}

Init ==
    /\ cfg \in SpecConfigs
    /\ live = {1}
    /\ quota = MaxPublish
    /\ keys \in SUBSET StoreKeys
    /\ InitSessions
    /\ msg = NoMessage
    /\ calls = [s \in Sessions |-> None]

-----------------------------------------------------------------------------
(* The views.                                                              *)

\* Session s called done_streaming o times more and pulled p times more.
Count(s, o, p) ==
    calls' = [calls EXCEPT ![s] =
        IF @ = None THEN None
        ELSE Some([oracle |-> @[1].oracle + o, pulls |-> @[1].pulls + p])]

\* A subscription is held from the subscribe call to the unsubscribe call.
Subscribed(s) == Len(subs[s]) > Len(unsubs[s])

\* ServerSentEventsBlueprint.stream: 204 and an empty body when the channel is
\* done streaming, else a streamed response over blocks(channel).
StreamView(s, channel, checked) ==
    /\ s \in live
    /\ pc[s] = "idle"
    /\ Count(s, 1, 0)
    /\ chan' = [chan EXCEPT ![s] = channel]
    /\ IF IsDone(checked)
       THEN /\ resp' = [resp EXCEPT ![s] =
                    [status |-> 204, mimetype |-> "text/html", streamed |-> FALSE]]
            /\ pc' = [pc EXCEPT ![s] = "done"]
            /\ outcome' = [outcome EXCEPT ![s] = "no-content"]
            /\ UNCHANGED kind
       ELSE /\ resp' = [resp EXCEPT ![s] =
                    [status |-> 200, mimetype |-> "text/event-stream", streamed |-> TRUE]]
            /\ pc' = [pc EXCEPT ![s] = "created"]
            /\ kind' = [kind EXCEPT ![s] = "blocks"]
            /\ UNCHANGED outcome
    /\ UNCHANGED <<cfg, live, quota, keys, timeout, queue, dropped, cleanup, pulled, out, body,
                   subs, unsubs, clientGone, published, msg>>

\* The pre-check asks about the default channel, not the requested one.
StreamChecksDefault(s, param) == StreamView(s, OrDefault(param, T_sse), T_sse)

\* The view asks done_streaming about the channel it resolved.
Stream(s, param) == StreamView(s, OrDefault(param, T_sse), OrDefault(param, T_sse))

\* ServerSentEventsBaseBlueprint.stream: a streamed response over messages(channel).
BaseStream(s, param) ==
    /\ s \in live
    /\ pc[s] = "idle"
    /\ chan' = [chan EXCEPT ![s] = OrDefault(param, T_sse)]
    /\ resp' = [resp EXCEPT ![s] =
            [status |-> 200, mimetype |-> "text/event-stream", streamed |-> TRUE]]
    /\ pc' = [pc EXCEPT ![s] = "created"]
    /\ kind' = [kind EXCEPT ![s] = "messages"]
    /\ UNCHANGED <<cfg, live, quota, keys, timeout, queue, dropped, cleanup, pulled, out, body,
                   subs, unsubs, outcome, clientGone, published, msg, calls>>

-----------------------------------------------------------------------------
(* The generators.                                                         *)

\* What pubsub.unsubscribe does in the finally clause: it returns, raises
\* redis ConnectionError (caught), or raises another error (not caught).
UnsubscribeResults == {"ok", "ConnectionError", "error"}

\* Every error of unsubscribe is caught, not ConnectionError alone.
EndingSwallowsAll(cause, u) == cause

\* How the generator ends when it leaves the try block for reason `cause`
\* and unsubscribe does `u`.
Ending(cause, u) == IF u = "error" THEN "error:unsubscribe" ELSE cause

\* The generator ends and its pubsub handle goes with it, whatever it held.
Release(s) ==
    /\ dropped' = [dropped EXCEPT ![s] = Len(queue[s])]
    /\ queue' = [queue EXCEPT ![s] = <<>>]

\* The unsubscribe follows the loop instead of standing in a finally clause:
\* it runs when the loop ends, not when an exception or a close leaves it.
FinallyAfterLoopOnly(s, cause, u) ==
    /\ unsubs' = [unsubs EXCEPT ![s] = IF cause = "stop" THEN Append(@, chan[s]) ELSE @]
    /\ outcome' = [outcome EXCEPT ![s] = IF cause = "stop" THEN Ending(cause, u) ELSE cause]
    /\ cleanup' = [cleanup EXCEPT ![s] = IF cause = "stop" THEN u ELSE @]
    /\ pc' = [pc EXCEPT ![s] = "done"]
    /\ Release(s)

\* The finally clause of blocks() and of messages(): unsubscribe(channel).
Finally(s, cause, u) ==
    /\ unsubs' = [unsubs EXCEPT ![s] = Append(@, chan[s])]
    /\ outcome' = [outcome EXCEPT ![s] = Ending(cause, u)]
    /\ cleanup' = [cleanup EXCEPT ![s] = u]
    /\ pc' = [pc EXCEPT ![s] = "done"]
    /\ Release(s)

\* A yield: the chunk leaves the generator, which stays suspended there.
Yield(s, chunk) ==
    /\ out' = [out EXCEPT ![s] = Append(@, chunk)]
    /\ pc' = [pc EXCEPT ![s] = "yielded"]

\* The new handle is handed an event published on the channel earlier.
StartReplays(s) ==
    /\ pc[s] = "created"
    /\ Count(s, IF kind[s] = "blocks" /\ TimeoutAsks THEN 1 ELSE 0, 0)
    /\ timeout' = [timeout EXCEPT ![s] =
            IF kind[s] = "blocks" THEN ComputeTimeout(chan[s]) ELSE None]
    /\ subs' = [subs EXCEPT ![s] = Append(@, chan[s])]
    /\ queue' = [queue EXCEPT ![s] =
            IF published[chan[s]] > 0
            THEN <<SubscribeAck, Notification(ToDict(E_thing))>>
            ELSE <<SubscribeAck>>]
    /\ pc' = [pc EXCEPT ![s] = IF kind[s] = "blocks" THEN "loop" ELSE "pull"]
    /\ UNCHANGED <<cfg, live, quota, keys, kind, chan, dropped, cleanup, pulled, out, body,
                   resp, unsubs, outcome, clientGone, published, msg>>

\* The loop tests done_streaming after its body, not before: the first pull
\* follows the subscribe at once.
StartThenPull(s) ==
    /\ pc[s] = "created"
    /\ Count(s, IF kind[s] = "blocks" /\ TimeoutAsks THEN 1 ELSE 0, 0)
    /\ timeout' = [timeout EXCEPT ![s] =
            IF kind[s] = "blocks" THEN ComputeTimeout(chan[s]) ELSE None]
    /\ subs' = [subs EXCEPT ![s] = Append(@, chan[s])]
    /\ queue' = [queue EXCEPT ![s] = <<SubscribeAck>>]
    /\ pc' = [pc EXCEPT ![s] = "pull"]
    /\ UNCHANGED <<cfg, live, quota, keys, kind, chan, dropped, cleanup, pulled, out, body,
                   resp, unsubs, outcome, clientGone, published, msg>>

\* The first next() of the generator, up to the subscribe: blocks() reads the
\* configuration and chooses the timeout, messages() goes straight to listen().
Start(s) ==
    /\ pc[s] = "created"
    /\ Count(s, IF kind[s] = "blocks" /\ TimeoutAsks THEN 1 ELSE 0, 0)
    /\ timeout' = [timeout EXCEPT ![s] =
            IF kind[s] = "blocks" THEN ComputeTimeout(chan[s]) ELSE None]
    /\ subs' = [subs EXCEPT ![s] = Append(@, chan[s])]
    /\ queue' = [queue EXCEPT ![s] = <<SubscribeAck>>]
    /\ pc' = [pc EXCEPT ![s] = IF kind[s] = "blocks" THEN "loop" ELSE "pull"]
    /\ UNCHANGED <<cfg, live, quota, keys, kind, chan, dropped, cleanup, pulled, out, body,
                   resp, unsubs, outcome, clientGone, published, msg>>

\* blocks(): "while not self.done_streaming(channel)".
LoopCheck(s) ==
    /\ pc[s] = "loop"
    /\ Count(s, 1, 0)
    /\ IF IsDone(chan[s])
       THEN \E u \in UnsubscribeResults :
                /\ Finally(s, "stop", u)
                /\ UNCHANGED <<cfg, live, quota, keys, kind, chan, timeout, pulled, out, body,
                               resp, subs, clientGone, published, msg>>
       ELSE /\ pc' = [pc EXCEPT ![s] = "pull"]
            /\ UNCHANGED <<cfg, live, quota, keys, kind, chan, timeout, queue, dropped, cleanup,
                           pulled, out, body, resp, subs, unsubs, outcome, clientGone,
                           published, msg>>

\* The kind of the notification is not looked at: every payload is decoded.
BlocksStepDecodesAll(n) ==
    IF Get(n.data, "sse-control") = None
    THEN IF CanConstruct(n.data)
         THEN [do |-> "yield", chunk |-> Format(FromDict(n.data))]
         ELSE [do |-> "raise"]
    ELSE IF n.data["sse-control"] = T_healthcheck
         THEN IF HealthCheckOn
              THEN [do |-> "yield", chunk |-> HealthCheck[1]]
              ELSE [do |-> "skip"]
    ELSE IF n.data["sse-control"] = T_disconnect THEN [do |-> "break"]
    ELSE [do |-> "skip"]

\* A payload that cannot be decoded is passed over.
BlocksStepSkipsUndecodable(n) ==
    IF n.type # "message" THEN [do |-> "skip"]
    ELSE IF Get(n.data, "sse-control") = None
         THEN IF CanConstruct(n.data)
              THEN [do |-> "yield", chunk |-> Format(FromDict(n.data))]
              ELSE [do |-> "skip"]
    ELSE IF n.data["sse-control"] = T_healthcheck
         THEN IF HealthCheckOn
              THEN [do |-> "yield", chunk |-> HealthCheck[1]]
              ELSE [do |-> "skip"]
    ELSE IF n.data["sse-control"] = T_disconnect THEN [do |-> "break"]
    ELSE [do |-> "skip"]

\* A command that is not known ends the generator.
BlocksStepUnknownStops(n) ==
    IF n.type # "message" THEN [do |-> "skip"]
    ELSE IF Get(n.data, "sse-control") = None
         THEN IF CanConstruct(n.data)
              THEN [do |-> "yield", chunk |-> Format(FromDict(n.data))]
              ELSE [do |-> "raise"]
    ELSE IF n.data["sse-control"] = T_healthcheck
         THEN IF HealthCheckOn
              THEN [do |-> "yield", chunk |-> HealthCheck[1]]
              ELSE [do |-> "skip"]
    ELSE [do |-> "break"]

\* The command "disconnect" is not acted on.
BlocksStepNoDisconnect(n) ==
    IF n.type # "message" THEN [do |-> "skip"]
    ELSE IF Get(n.data, "sse-control") = None
         THEN IF CanConstruct(n.data)
              THEN [do |-> "yield", chunk |-> Format(FromDict(n.data))]
              ELSE [do |-> "raise"]
    ELSE IF n.data["sse-control"] = T_healthcheck
         THEN IF HealthCheckOn
              THEN [do |-> "yield", chunk |-> HealthCheck[1]]
              ELSE [do |-> "skip"]
    ELSE [do |-> "skip"]

\* blocks(): what the loop body does with the notification get_message returned.
\* "yield", "skip" (back to the loop test), "break" or "raise".
BlocksStep(n) ==
    IF n.type # "message" THEN [do |-> "skip"]
    ELSE IF Get(n.data, "sse-control") = None
         THEN IF CanConstruct(n.data)
              THEN [do |-> "yield", chunk |-> Format(FromDict(n.data))]
              ELSE [do |-> "raise"]
    ELSE IF n.data["sse-control"] = T_healthcheck
         THEN IF HealthCheckOn
              THEN [do |-> "yield", chunk |-> HealthCheck[1]]
              ELSE [do |-> "skip"]
    ELSE IF n.data["sse-control"] = T_disconnect THEN [do |-> "break"]
    ELSE [do |-> "skip"]

\* messages(): what the loop body does with the notification listen() produced.
\* The chunk is str(message), as stream() of the base blueprint yields it.
MessagesStep(n) ==
    IF n.type # "message" THEN [do |-> "skip"]
    ELSE IF CanConstruct(n.data)
         THEN [do |-> "yield", chunk |-> Format(FromDict(n.data))]
         ELSE [do |-> "raise"]

GeneratorStep(s, n) == IF kind[s] = "blocks" THEN BlocksStep(n) ELSE MessagesStep(n)

\* Where the generator goes after a notification that produced nothing.
AfterSkip(s) == IF kind[s] = "blocks" THEN "loop" ELSE "pull"

\* A pull that returns a notification, and the loop body run on it.
Pull(s) ==
    /\ pc[s] = "pull"
    /\ Count(s, 0, 1)
    /\ queue[s] # <<>>
    /\ LET n == Head(queue[s])
           step == GeneratorStep(s, n)
       IN  /\ pulled' = [pulled EXCEPT ![s] = Append(@, n)]
           /\ CASE step.do = "yield" ->
                    /\ Yield(s, step.chunk)
                    /\ queue' = [queue EXCEPT ![s] = Tail(@)]
                    /\ UNCHANGED <<dropped, cleanup, unsubs, outcome>>
                [] step.do = "skip" ->
                    /\ pc' = [pc EXCEPT ![s] = AfterSkip(s)]
                    /\ queue' = [queue EXCEPT ![s] = Tail(@)]
                    /\ UNCHANGED <<dropped, cleanup, out, unsubs, outcome>>
                [] step.do = "break" ->
                    /\ \E u \in UnsubscribeResults : Finally(s, "stop", u)
                    /\ UNCHANGED out
                [] step.do = "raise" ->
                    /\ \E u \in UnsubscribeResults : Finally(s, "error:decode", u)
                    /\ UNCHANGED out
    /\ UNCHANGED <<cfg, live, quota, keys, kind, chan, timeout, body, resp, subs, clientGone,
                   published, msg>>

\* The health-check chunks among the chunks session s yielded.
HealthChecks(s) == Cardinality({i \in 1..Len(out[s]) : Some(out[s][i]) = HealthCheck})

\* Whether one more timeout of session s stays within the model's bound:
\* a timeout that yields nothing changes nothing but the generator's position.
Room(s) == HealthCheckOn => HealthChecks(s) < MaxHealthChecks

\* Where the pulls are counted, a pull that times out needs room in the count.
PullRoom(s) == calls[s] # None => calls[s][1].pulls < MaxPulls

\* A pull that returns no message goes back to the loop test with nothing yielded.
TimeoutYieldsNothing(s) ==
    /\ pc[s] = "pull"
    /\ Count(s, 0, 1)
    /\ kind[s] = "blocks"
    /\ timeout[s] # None
    /\ queue[s] = <<>>
    /\ PullRoom(s)
    /\ pc' = [pc EXCEPT ![s] = "loop"]
    /\ UNCHANGED <<cfg, live, quota, keys, kind, chan, timeout, queue, dropped, cleanup, pulled,
                   out, body, resp, subs, unsubs, outcome, clientGone, published, msg>>

\* get_message(timeout) returns None: nothing arrived within the timeout.
Timeout(s) ==
    /\ pc[s] = "pull"
    /\ Count(s, 0, 1)
    /\ kind[s] = "blocks"
    /\ timeout[s] # None
    /\ queue[s] = <<>>
    /\ PullRoom(s)
    /\ IF HealthCheckOn
       THEN /\ Room(s)
            /\ Yield(s, HealthCheck[1])
       ELSE /\ pc' = [pc EXCEPT ![s] = "loop"]
            /\ UNCHANGED out
    /\ UNCHANGED <<cfg, live, quota, keys, kind, chan, timeout, queue, dropped, cleanup, pulled,
                   body, resp, subs, unsubs, outcome, clientGone, published, msg>>

\* get_message / listen raises: the error leaves through the finally clause.
PullError(s) ==
    /\ pc[s] = "pull"
    /\ Count(s, 0, 1)
    /\ \E u \in UnsubscribeResults : Finally(s, "error:pull", u)
    /\ UNCHANGED <<cfg, live, quota, keys, kind, chan, timeout, pulled, out, body, resp, subs,
                   clientGone, published, msg>>

\* The server wrote the yielded chunk to the client and asks for the next one.
Resume(s) ==
    /\ pc[s] = "yielded"
    /\ ~clientGone[s]
    /\ body' = [body EXCEPT ![s] = @ \o out[s][Len(out[s])]]
    /\ pc' = [pc EXCEPT ![s] = AfterSkip(s)]
    /\ UNCHANGED <<cfg, live, quota, keys, kind, chan, timeout, queue, dropped, cleanup, pulled,
                   out, resp, subs, unsubs, outcome, clientGone, published, msg, calls>>

\* The server could not write the chunk and closes the generator: GeneratorExit
\* is raised at the yield and leaves through the finally clause.
Close(s) ==
    /\ pc[s] = "yielded"
    /\ clientGone[s]
    /\ \E u \in UnsubscribeResults : Finally(s, "closed", u)
    /\ UNCHANGED <<cfg, live, quota, keys, kind, chan, timeout, pulled, out, body, resp, subs,
                   clientGone, published, msg, calls>>

-----------------------------------------------------------------------------
(* The environment: the client, the publishers, the store.                 *)

\* How many times the transport's publish was called, on any channel.
RECURSIVE SumOver(_, _)
SumOver(f, S) ==
    IF S = {} THEN 0
    ELSE LET x == CHOOSE x \in S : TRUE IN f[x] + SumOver(f, S \ {x})

PublishedTotal == SumOver(published, Channels)

\* The publishers and the store are followed while a session may still open or run.
Watching == \E s \in live : pc[s] # "done"

\* The client closes or aborts the HTTP connection of an open response.
ClientClose(s) ==
    /\ pc[s] \in {"created", "loop", "pull", "yielded"}
    /\ ~clientGone[s]
    /\ Room(s)
    /\ clientGone' = [clientGone EXCEPT ![s] = TRUE]
    /\ UNCHANGED <<cfg, live, quota, keys, pc, kind, chan, timeout, queue, dropped, cleanup,
                   pulled, out, body, resp, subs, unsubs, outcome, published, msg, calls>>

\* The transport hands the message to every subscribed handle, whatever its channel.
DeliverToAll(channel, payload) ==
    /\ Watching
    /\ PublishedTotal < quota
    /\ published' = [published EXCEPT ![channel] = @ + 1]
    /\ queue' = [s \in Sessions |->
            IF Subscribed(s) THEN Append(queue[s], Notification(payload)) ELSE queue[s]]
    /\ UNCHANGED <<cfg, live, quota, keys, pc, kind, chan, timeout, dropped, cleanup, pulled,
                   out, body, resp, subs, unsubs, outcome, clientGone, msg, calls>>

\* The transport hands the message to one handle subscribed to the channel,
\* as a work queue does, not to each of them.
DeliverToOne(channel, payload) ==
    /\ Watching
    /\ PublishedTotal < quota
    /\ published' = [published EXCEPT ![channel] = @ + 1]
    /\ LET there == {s \in Sessions : Subscribed(s) /\ chan[s] = channel}
       IN  queue' = [s \in Sessions |->
                IF s \in there /\ \A t \in there : s <= t
                THEN Append(queue[s], Notification(payload))
                ELSE queue[s]]
    /\ UNCHANGED <<cfg, live, quota, keys, pc, kind, chan, timeout, dropped, cleanup, pulled,
                   out, body, resp, subs, unsubs, outcome, clientGone, msg, calls>>

\* redis.publish(channel, message): the transport hands the message to every
\* pubsub handle subscribed to the channel at that moment, and to no other.
Deliver(channel, payload) ==
    /\ Watching
    /\ PublishedTotal < quota
    /\ published' = [published EXCEPT ![channel] = @ + 1]
    /\ queue' = [s \in Sessions |->
            IF Subscribed(s) /\ chan[s] = channel
            THEN Append(queue[s], Notification(payload))
            ELSE queue[s]]
    /\ UNCHANGED <<cfg, live, quota, keys, pc, kind, chan, timeout, dropped, cleanup, pulled,
                   out, body, resp, subs, unsubs, outcome, clientGone, msg, calls>>

\* ServerSentEventsBaseBlueprint.publish
Publish(m, channel) == Deliver(channel, ToDict(m))

\* ServerSentEventsBlueprint.control
Control(command, channel) == Deliver(channel, ControlEnvelope(command))

\* Another program publishes on the channel with the Redis client itself.
ForeignPublish(payload, channel) == Deliver(channel, payload)

\* Another party creates the key of a channel.
KeySet(k) ==
    /\ Watching
    /\ k \in StoreKeys \ keys
    /\ keys' = keys \cup {k}
    /\ UNCHANGED <<cfg, live, quota, pc, kind, chan, timeout, queue, dropped, cleanup, pulled,
                   out, body, resp, subs, unsubs, outcome, clientGone, published, msg, calls>>

\* The key of a channel is deleted or expires.
KeyDel(k) ==
    /\ Watching
    /\ k \in keys
    /\ \A s \in Sessions : Room(s)
    /\ keys' = keys \ {k}
    /\ UNCHANGED <<cfg, live, quota, pc, kind, chan, timeout, queue, dropped, cleanup, pulled,
                   out, body, resp, subs, unsubs, outcome, clientGone, published, msg, calls>>

-----------------------------------------------------------------------------
(* Specifications.                                                         *)

SessionNext(s) ==
    \/ \E param \in ChannelParams : Stream(s, param)
    \/ \E param \in ChannelParams : BaseStream(s, param)
    \/ Start(s)
    \/ LoopCheck(s)
    \/ Pull(s)
    \/ Timeout(s)
    \/ PullError(s)
    \/ Resume(s)
    \/ Close(s)
    \/ ClientClose(s)

EnvNext ==
    \/ \E m \in PublishInputs, c \in Channels : Publish(m, c)
    \/ \E cmd \in Commands, c \in Channels : Control(cmd, c)
    \/ \E p \in ForeignPayloads, c \in Channels : ForeignPublish(p, c)
    \/ \E k \in StoreKeys : KeySet(k)
    \/ \E k \in StoreKeys : KeyDel(k)

Next == (\E s \in Sessions : SessionNext(s)) \/ EnvNext

Spec == Init /\ [][Next]_vars

\* The runs checked for liveness: the same program, fewer publish calls.
FairInit ==
    /\ cfg \in SpecConfigs
    /\ live = {1}
    /\ quota = MaxPublishFair
    /\ keys \in SUBSET StoreKeys
    /\ InitSessions
    /\ msg = NoMessage
    /\ calls = [s \in Sessions |-> None]

\* The runs with a prefix that is not empty, beside those without a prefix.
PrefixInit ==
    /\ cfg \in {c \in Configs : c.prefix \in {None, Some(T_prefix)}}
    /\ live = {1}
    /\ quota = MaxPublishFair
    /\ keys \in SUBSET StoreKeys
    /\ InitSessions
    /\ msg = NoMessage
    /\ calls = [s \in Sessions |-> None]

PrefixSpec == PrefixInit /\ [][Next]_vars

\* The runs that vary SSE_HEALTH_CHECK further: texts of more than one line.
T_two_lines == <<"a", LF, "d", "a", "t", "a", ":", "x">>
T_line_end == <<"a", LF>>
WideHealthCheckTexts == {Some(<<>>), Some(T_HC), Some(T_two_lines), Some(T_line_end)}

HealthInit ==
    /\ cfg \in [hc : WideHealthCheckTexts, prefix : {None, Some(<<>>)}, timeout : {None}]
    /\ live = {1}
    /\ quota = MaxPublishFair
    /\ keys \in SUBSET StoreKeys
    /\ InitSessions
    /\ msg = NoMessage
    /\ calls = [s \in Sessions |-> None]

HealthSpec == HealthInit /\ [][Next]_vars

\* The runs that count the calls of done_streaming and the pulls of a session.
CountInit ==
    /\ cfg \in SpecConfigs
    /\ live = {1}
    /\ quota = MaxPublishFair
    /\ keys \in SUBSET StoreKeys
    /\ InitSessions
    /\ msg = NoMessage
    /\ calls = [s \in Sessions |-> Some([oracle |-> 0, pulls |-> 0])]

CountSpec == CountInit /\ [][Next]_vars

\* The runs with two requests at once: every session may open, on either
\* channel, in the default configuration (no health-check text, no prefix,
\* no timeout: a pull waits until a notification is there).
PairConfig == [hc |-> None, prefix |-> None, timeout |-> None]

PairInit ==
    /\ cfg = PairConfig
    /\ live = Sessions
    /\ quota = MaxPublish
    /\ keys = {}
    /\ InitSessions
    /\ msg = NoMessage
    /\ calls = [s \in Sessions |-> None]

\* class Message by itself: an application builds a Message and calls
\* to_dict(), Message(**d) on the result, and str().
DataTexts ==
    {<<>>, T_thing, <<"a", LF, "b">>, <<"a", CR, LF, "b">>, <<"a", LF>>, <<"a", LF, LF, "b">>}
Types == {None, Some(<<>>), Some(T_example)}
Ids == {None, Some(<<>>), Some(T_abc)}
Retries == {None} \cup {Some(n) : n \in 0..MaxRetry}
Events == {Message(d, t, i, r) : d \in DataTexts, t \in Types, i \in Ids, r \in Retries}

\* Message.__eq__, between two Messages.
MessageEq(a, b) ==
    a.data = b.data /\ a.type = b.type /\ a.id = b.id /\ a.retry = b.retry

MessageInit ==
    /\ msg \in {[event |-> Some(e), dict |-> None, back |-> None, text |-> None] :
                    e \in Events}
    /\ cfg = [hc |-> None, prefix |-> None, timeout |-> None]
    /\ live = {}
    /\ quota = 0
    /\ keys = {}
    /\ InitSessions
    /\ calls = [s \in Sessions |-> None]

streamVars == <<cfg, live, quota, keys, pc, kind, chan, timeout, queue, dropped, pulled, out,
                body, resp, subs, unsubs, outcome, clientGone, published, cleanup, calls>>

\* d = message.to_dict()
ToDictCall ==
    /\ msg.event # None /\ msg.dict = None
    /\ msg' = [msg EXCEPT !.dict = Some(ToDict(msg.event[1]))]
    /\ UNCHANGED streamVars

\* Message(**d) on that dict
FromDictCall ==
    /\ msg.dict # None /\ msg.back = None
    /\ CanConstruct(msg.dict[1])
    /\ msg' = [msg EXCEPT !.back = Some(FromDict(msg.dict[1]))]
    /\ UNCHANGED streamVars

\* str(message)
StrCall ==
    /\ msg.event # None /\ msg.text = None
    /\ msg' = [msg EXCEPT !.text = Some(Format(msg.event[1]))]
    /\ UNCHANGED streamVars

MessageNext == ToDictCall \/ FromDictCall \/ StrCall

MessageSpec == MessageInit /\ [][MessageNext]_vars

\* A step of session s's generator or of the server consuming it.
Progress(s) ==
    Start(s) \/ LoopCheck(s) \/ Pull(s) \/ Timeout(s) \/ Resume(s) \/ Close(s)

\* What the scheduling guarantees: a generator that can run does run, a pull
\* returns when a notification is there or its timeout elapses, and the server
\* consumes a yielded chunk (it writes it, or fails to and closes the generator).
\* Nothing obliges a publisher to publish or a pull to fail.
Fairness == \A s \in Sessions : WF_vars(Progress(s))

FairSpec == FairInit /\ [][Next]_vars /\ Fairness

\* Two requests at once, under the same scheduling: each is a GET of the
\* stream endpoint, on the default channel or on "garden"; its client may close
\* it; the publishers send an event or the disconnect command on either
\* channel; the transport's pulls do not fail.
PairSessionNext(s) ==
    \/ \E param \in {None, Some(T_garden)} : Stream(s, param)
    \/ Start(s)
    \/ LoopCheck(s)
    \/ Pull(s)
    \/ Resume(s)
    \/ Close(s)
    \/ ClientClose(s)

PairEnvNext ==
    \/ \E c \in Channels : Publish(E_thing, c)
    \/ \E c \in Channels : Control(T_disconnect, c)

PairNext == (\E s \in Sessions : PairSessionNext(s)) \/ PairEnvNext

PairSpec == PairInit /\ [][PairNext]_vars /\ Fairness

-----------------------------------------------------------------------------
(* What the claims speak of, read from the state alone.                    *)

Last(seq) == seq[Len(seq)]

\* The termination key of channel c is configured and missing from the store.
KeyAbsent(c) == cfg.prefix # None /\ (cfg.prefix[1] \o c) \notin keys

\* The notification a pull of session s returns in this step, if one does.
PullReturns(s) == Len(pulled'[s]) = Len(pulled[s]) + 1
Returned(s) == pulled'[s][Len(pulled'[s])]

CarriesControl(n) == n.type = "message" /\ "sse-control" \in DOMAIN n.data
CarriesCommand(n, c) == CarriesControl(n) /\ n.data["sse-control"] = c
CarriesEvent(n) == n.type = "message" /\ "sse-control" \notin DOMAIN n.data
                       /\ "data" \in DOMAIN n.data

StreamedResponse == [status |-> 200, mimetype |-> "text/event-stream", streamed |-> TRUE]

\* The wire blocks and chunks of the texts the model publishes, written out.
B_thing == <<"e", "v", "e", "n", "t", ":", "e", "x", "a", "m", "p", "l", "e", "\n",
             "d", "a", "t", "a", ":", "t", "h", "i", "n", "g", "\n", "\n">>
B_whee == <<"d", "a", "t", "a", ":", "w", "h", "e", "e", "\n",
            "i", "d", ":", "a", "b", "c", "\n", "\n">>
HC_empty == <<":", "\n">>
HC_text == <<":", "H", "C", "\n">>

-----------------------------------------------------------------------------
(* C1: a session that subscribed unsubscribes exactly once, on the channel *)
(* it subscribed to, on every way out (the oracle, a disconnect, a close   *)
(* at a yield, an error), never before the subscribe; after it the session *)
(* pulls nothing and emits nothing.                                        *)

C1_State ==
    \A s \in Sessions :
        /\ Len(subs[s]) <= 1
        /\ Len(unsubs[s]) <= 1
        /\ unsubs[s] # <<>> => unsubs[s] = subs[s] /\ pc[s] = "done"
        /\ (pc[s] = "done" /\ subs[s] # <<>>) => unsubs[s] = <<chan[s]>>

C1_Step ==
    \A s \in Sessions :
        /\ unsubs'[s] # unsubs[s] => subs[s] # <<>> /\ subs'[s] = subs[s]
        /\ unsubs[s] # <<>> =>
              /\ pulled'[s] = pulled[s]
              /\ out'[s] = out[s]
              /\ pc'[s] = pc[s]
              /\ unsubs'[s] = unsubs[s]
              /\ subs'[s] = subs[s]

C1_UnsubscribeExactlyOnce == [](C1_State) /\ [][C1_Step]_vars

\* A session closed by its consumer at the yield of a health-check chunk.
C1_Witness ==
    \E s \in Sessions :
        /\ outcome[s] = "closed"
        /\ subs[s] = <<T_garden>>
        /\ unsubs[s] = <<T_garden>>
        /\ out[s] # <<>> /\ Last(out[s]) = HC_text

-----------------------------------------------------------------------------
(* C2: once the client has closed the connection of a streaming session,   *)
(* the session eventually unsubscribes, in every configuration and even    *)
(* if nothing more is published.                                           *)

C2_CloseLeadsToUnsubscribe ==
    \A s \in Sessions :
        (kind[s] = "blocks" /\ clientGone[s] /\ Subscribed(s)) ~> (unsubs[s] # <<>>)

-----------------------------------------------------------------------------
(* C3: a blocks() session that pulls the control "disconnect" emits nothing *)
(* for it and nothing after it, pulls nothing more, ends, and unsubscribes  *)
(* exactly once on its channel; its response is a streamed 200              *)
(* text/event-stream whose body is the chunks emitted before.               *)

C3_State ==
    \A s \in Sessions :
        (kind[s] = "blocks" /\
            \E i \in 1..Len(pulled[s]) : CarriesCommand(pulled[s][i], T_disconnect))
        => /\ \A i \in 1..Len(pulled[s]) :
                 CarriesCommand(pulled[s][i], T_disconnect) => i = Len(pulled[s])
           /\ pc[s] = "done"
           /\ unsubs[s] = <<chan[s]>>
           /\ resp[s] = StreamedResponse
           /\ body[s] = Flatten(out[s])

C3_Step ==
    \A s \in Sessions :
        kind[s] = "blocks" =>
            /\ (PullReturns(s) /\ CarriesCommand(Returned(s), T_disconnect))
                  => out'[s] = out[s] /\ unsubs[s] = <<>> /\ unsubs'[s] = <<chan[s]>>
            /\ (pulled[s] # <<>> /\ CarriesCommand(Last(pulled[s]), T_disconnect))
                  => out'[s] = out[s] /\ pulled'[s] = pulled[s] /\ body'[s] = body[s]

C3_DisconnectEndsSession == [](C3_State) /\ [][C3_Step]_vars

\* A session that emitted an event block and then was told to disconnect.
C3_Witness ==
    \E s \in Sessions :
        /\ kind[s] = "blocks"
        /\ Len(pulled[s]) = 3 /\ CarriesCommand(pulled[s][3], T_disconnect)
        /\ out[s] = <<B_thing>>
        /\ body[s] = B_thing
        /\ pc[s] = "done"

-----------------------------------------------------------------------------
(* C4: with a prefix configured, a blocks() session whose re-check finds   *)
(* the key missing leaves the loop at that re-check without another pull,  *)
(* whatever is queued, and unsubscribes exactly once; a re-check precedes  *)
(* every pull; and while the key stays missing the session ends.           *)

C4_Step ==
    \A s \in Sessions :
        kind[s] = "blocks" =>
            /\ (pc[s] = "loop" /\ pc'[s] # "loop" /\ KeyAbsent(chan[s]))
                  => /\ pc'[s] = "done"
                     /\ pulled'[s] = pulled[s]
                     /\ out'[s] = out[s]
                     /\ unsubs[s] = <<>>
                     /\ unsubs'[s] = <<chan[s]>>
            /\ (pc'[s] = "pull" /\ pc[s] # "pull")
                  => pc[s] = "loop" /\ ~KeyAbsent(chan[s])
            /\ pulled'[s] # pulled[s] => pc[s] = "pull"

C4_Live ==
    \A s \in Sessions :
        (kind[s] = "blocks" /\ Subscribed(s) /\ KeyAbsent(chan[s]))
            ~> (unsubs[s] # <<>> \/ ~KeyAbsent(chan[s]))

C4_OracleEndsSession == [][C4_Step]_vars /\ C4_Live

\* A session stopped by the oracle while a notification was queued for it.
C4_Witness ==
    \E s \in Sessions :
        /\ kind[s] = "blocks"
        /\ outcome[s] = "stop"
        /\ KeyAbsent(chan[s])
        /\ dropped[s] > 0
        /\ \A i \in 1..Len(pulled[s]) : ~CarriesControl(pulled[s][i])
        /\ unsubs[s] = <<chan[s]>>

-----------------------------------------------------------------------------
(* C5: when the key of the requested channel is missing as the view        *)
(* handles the request, the response is a 204 with an empty, non-streamed  *)
(* body and no session starts: no subscribe, no pull, ever.                *)

C5_State ==
    \A s \in Sessions :
        resp[s].status = 204
        => /\ ~resp[s].streamed
           /\ body[s] = <<>> /\ out[s] = <<>>
           /\ subs[s] = <<>> /\ pulled[s] = <<>>
           /\ pc[s] = "done" /\ kind[s] = "none"

C5_Step ==
    \A s \in Sessions :
        (pc[s] = "idle" /\ pc'[s] # "idle" /\ kind'[s] # "messages" /\ KeyAbsent(chan'[s]))
            => resp'[s].status = 204

C5_DoneAnswers204 == [](C5_State) /\ [][C5_Step]_vars

\* A request for the channel "garden" answered 204.
C5_Witness ==
    \E s \in Sessions :
        /\ resp[s].status = 204
        /\ chan[s] = T_garden
        /\ KeyAbsent(T_garden)
        /\ ~KeyAbsent(T_sse)

-----------------------------------------------------------------------------
(* C6, as claimed: when the key is missing as blocks() is entered, also    *)
(* when it went missing after the view's pre-check, the session does not   *)
(* subscribe and yields nothing.                                           *)

C6_Entry ==
    \A s \in Sessions :
        (kind[s] = "blocks" /\ pc[s] = "created" /\ pc'[s] # "created"
            /\ KeyAbsent(chan[s]))
            => subs'[s] = <<>> /\ out'[s] = <<>>

C6_NoSubscribeWhenDoneAtEntry == [][C6_Entry]_vars

(* C6, amended: blocks() subscribes on entry whatever the oracle says, and  *)
(* tests the oracle next; when that first test finds the key missing the    *)
(* session pulls nothing, yields nothing and unsubscribes once.             *)

C6_Step ==
    \A s \in Sessions :
        kind[s] = "blocks" =>
            /\ (pc[s] = "created" /\ pc'[s] # "created")
                  => /\ subs'[s] = <<chan[s]>>
                     /\ out'[s] = <<>> /\ pulled'[s] = <<>>
                     /\ pc'[s] = "loop"
            /\ (pc[s] = "loop" /\ pc'[s] # "loop" /\ pulled[s] = <<>> /\ out[s] = <<>>
                  /\ KeyAbsent(chan[s]))
                  => /\ subs[s] = <<chan[s]>>
                     /\ pc'[s] = "done"
                     /\ pulled'[s] = <<>> /\ out'[s] = <<>> /\ body'[s] = <<>>
                     /\ unsubs'[s] = <<chan[s]>>

C6_SubscribesThenStops == [][C6_Step]_vars

\* The key went missing after the pre-check: a streamed 200 with nothing in it.
C6_Witness ==
    \E s \in Sessions :
        /\ kind[s] = "blocks" /\ outcome[s] = "stop"
        /\ resp[s] = StreamedResponse
        /\ KeyAbsent(chan[s])
        /\ subs[s] = <<chan[s]>> /\ unsubs[s] = <<chan[s]>>
        /\ pulled[s] = <<>> /\ out[s] = <<>> /\ body[s] = <<>>

-----------------------------------------------------------------------------
(* C7: the event blocks a session emitted are the wire blocks of the Event *)
(* envelopes its pulls returned, one each, in that order; the body the     *)
(* server wrote is those chunks in that order.                             *)

IsEventBlock(chunk) == chunk[1] # ":"
EventBlocks(s) == SelectSeq(out[s], IsEventBlock)
PulledEvents(s) == SelectSeq(pulled[s], CarriesEvent)

WireBlock(d) ==
    IF d = [data |-> T_thing, type |-> T_example] THEN B_thing
    ELSE IF d = [data |-> T_whee, id |-> T_abc] THEN B_whee
    ELSE <<>>

C7_BlocksInOrder ==
    \A s \in Sessions :
        /\ EventBlocks(s) =
              [i \in 1..Len(PulledEvents(s)) |-> WireBlock(PulledEvents(s)[i].data)]
        /\ \/ body[s] = Flatten(out[s])
           \/ out[s] # <<>> /\ body[s] = Flatten(SubSeq(out[s], 1, Len(out[s]) - 1))

\* Two events, emitted in the order they were pulled.
C7_Witness ==
    \E s \in Sessions :
        /\ kind[s] = "blocks"
        /\ Len(pulled[s]) = 3
        /\ pulled[s][2].data = [data |-> T_thing, type |-> T_example]
        /\ pulled[s][3].data = [data |-> T_whee, id |-> T_abc]
        /\ out[s] = <<B_thing, B_whee>>
        /\ body[s] = B_thing \o B_whee

-----------------------------------------------------------------------------
(* C8: a blocks() session that pulls the control "health-check" emits one  *)
(* chunk ":" + text + "\n" when a text is configured (the empty text       *)
(* too) and nothing when none is; it stays subscribed, and an Event pulled *)
(* next is emitted.                                                        *)

C8_Step ==
    \A s \in Sessions :
        kind[s] = "blocks" =>
            /\ (PullReturns(s) /\ CarriesCommand(Returned(s), T_healthcheck))
                  => /\ out'[s] = IF cfg.hc = None THEN out[s]
                                  ELSE Append(out[s], <<":">> \o cfg.hc[1] \o <<"\n">>)
                     /\ pc'[s] = IF cfg.hc = None THEN "loop" ELSE "yielded"
                     /\ unsubs'[s] = <<>>
                     /\ outcome'[s] = "none"
            /\ (pulled[s] # <<>> /\ CarriesCommand(Last(pulled[s]), T_healthcheck)
                  /\ PullReturns(s) /\ CarriesEvent(Returned(s)))
                  => out'[s] = Append(out[s], WireBlock(Returned(s).data))

C8_HealthCheckControl == [][C8_Step]_vars

\* The empty text configured: the chunk ":\n", then the next event.
C8_Witness ==
    \E s \in Sessions :
        /\ kind[s] = "blocks"
        /\ cfg.hc = Some(<<>>)
        /\ Len(pulled[s]) = 3
        /\ CarriesCommand(pulled[s][2], T_healthcheck)
        /\ out[s] = <<HC_empty, B_thing>>

-----------------------------------------------------------------------------
(* C9: a blocks() session that pulls a control whose command is neither    *)
(* "disconnect" nor "health-check" emits nothing for it, raises nothing,   *)
(* stays subscribed, and emits the Event it pulls next.                    *)

CarriesUnknown(n) ==
    CarriesControl(n) /\ n.data["sse-control"] \notin {T_disconnect, T_healthcheck}

C9_Step ==
    \A s \in Sessions :
        kind[s] = "blocks" =>
            /\ (PullReturns(s) /\ CarriesUnknown(Returned(s)))
                  => /\ out'[s] = out[s]
                     /\ pc'[s] = "loop"
                     /\ unsubs'[s] = <<>>
                     /\ outcome'[s] = "none"
            /\ (pulled[s] # <<>> /\ CarriesUnknown(Last(pulled[s]))
                  /\ PullReturns(s) /\ CarriesEvent(Returned(s)))
                  => /\ out'[s] = Append(out[s], WireBlock(Returned(s).data))
                     /\ pc'[s] = "yielded"

C9_UnknownCommandIgnored == [][C9_Step]_vars

\* An unknown command, then an event, which is emitted.
C9_Witness ==
    \E s \in Sessions :
        /\ kind[s] = "blocks"
        /\ Len(pulled[s]) = 3
        /\ CarriesCommand(pulled[s][2], T_notsupported)
        /\ CarriesEvent(pulled[s][3])
        /\ out[s] = <<B_thing>>
        /\ pc[s] = "yielded"

-----------------------------------------------------------------------------
(* C10: a messages() generator that pulls a control envelope skips it:     *)
(* nothing is yielded for it, no error ends the generator, and it stays    *)
(* subscribed for the Event that follows.                                  *)

C10_Step ==
    \A s \in Sessions :
        (kind[s] = "messages" /\ PullReturns(s) /\ CarriesControl(Returned(s)))
            => /\ out'[s] = out[s]
               /\ outcome'[s] = "none"
               /\ unsubs'[s] = <<>>
               /\ pc'[s] = "pull"

C10_MessagesSkipsControl == [][C10_Step]_vars

-----------------------------------------------------------------------------
(* C11: each pull of a blocks() session that returns no message emits one  *)
(* health-check chunk when a text is configured and nothing when none is;  *)
(* the session stays subscribed, goes back to the oracle test, and an      *)
(* Event pulled afterwards is emitted.                                     *)

\* A pull of session s returns in this step without a notification.
TimeoutReturns(s) ==
    /\ kind[s] = "blocks"
    /\ pc[s] = "pull" /\ pc'[s] \in {"loop", "yielded"}
    /\ pulled'[s] = pulled[s]

C11_Step ==
    \A s \in Sessions :
        /\ TimeoutReturns(s)
              => /\ out'[s] = IF cfg.hc = None THEN out[s]
                              ELSE Append(out[s], <<":">> \o cfg.hc[1] \o <<"\n">>)
                 /\ pc'[s] = IF cfg.hc = None THEN "loop" ELSE "yielded"
                 /\ unsubs'[s] = <<>>
                 /\ outcome'[s] = "none"
        /\ (kind[s] = "blocks" /\ pc[s] = "yielded" /\ pc'[s] \notin {"yielded", "done"})
              => pc'[s] = "loop"
        /\ (kind[s] = "blocks" /\ out[s] # <<>> /\ Last(out[s])[1] = ":"
              /\ PullReturns(s) /\ CarriesEvent(Returned(s)))
              => out'[s] = Append(out[s], WireBlock(Returned(s).data))

C11_TimeoutHealthCheck == [][C11_Step]_vars

\* A timeout emitted the chunk ":HC\n"; the event pulled after it followed.
C11_Witness ==
    \E s \in Sessions :
        /\ kind[s] = "blocks"
        /\ cfg.hc = Some(T_HC)
        /\ Len(pulled[s]) = 2
        /\ pulled[s][1].type = "subscribe"
        /\ CarriesEvent(pulled[s][2])
        /\ out[s] = <<HC_text, B_thing>>

-----------------------------------------------------------------------------
(* C12: the timeout of every pull of a blocks() session is SSE_TIMEOUT     *)
(* when one is configured; else 15 when a health-check text or a prefix is *)
(* configured, the empty text and the empty prefix included; else none.    *)
(* It is the same for every pull, and a pull returns without a message     *)
(* only when it is not none.                                               *)

C12_Expected ==
    IF cfg.timeout # <<>> THEN cfg.timeout
    ELSE IF cfg.hc # <<>> \/ cfg.prefix # <<>> THEN <<15>>
    ELSE <<>>

C12_State ==
    \A s \in Sessions :
        (kind[s] = "blocks" /\ subs[s] # <<>>) => timeout[s] = C12_Expected

C12_Step == \A s \in Sessions : TimeoutReturns(s) => C12_Expected # <<>>

C12_TimeoutOfEveryPull == [](C12_State) /\ [][C12_Step]_vars

\* The empty health-check text alone: the default of 15, and a pull timed out.
C12_Witness ==
    \E s \in Sessions :
        /\ kind[s] = "blocks"
        /\ cfg = [hc |-> <<<<>>>>, prefix |-> <<>>, timeout |-> <<>>]
        /\ timeout[s] = <<15>>
        /\ out[s] = <<HC_empty>>
        /\ Len(pulled[s]) = 1

-----------------------------------------------------------------------------
(* C13: done_streaming is "never done" without a prefix; with a prefix it  *)
(* is done exactly when the key prefix + channel is missing from the store *)
(* at the moment of the call.  Each pre-check of the view and each loop    *)
(* test of a session follows the store as it is then; without a prefix no  *)
(* request is answered 204 and no loop test ends a session.                *)

C13_Step ==
    \A s \in Sessions :
        /\ (pc[s] = "idle" /\ pc'[s] # "idle" /\ kind'[s] # "messages")
              => (resp'[s].status = 204
                    <=> (cfg.prefix # <<>> /\ (cfg.prefix[1] \o chan'[s]) \notin keys))
        /\ (kind[s] = "blocks" /\ pc[s] = "loop" /\ pc'[s] # "loop")
              => (pc'[s] = "done"
                    <=> (cfg.prefix # <<>> /\ (cfg.prefix[1] \o chan[s]) \notin keys))

-----------------------------------------------------------------------------
(* C14: the Message built from the keywords of e.to_dict() equals e, for  *)
(* every Message e, whatever subset of type, id and retry is set, the      *)
(* empty string and retry 0 included.                                      *)

C14_RoundTrip ==
    msg.back # <<>> =>
        /\ msg.back[1].data = msg.event[1].data
        /\ msg.back[1].type = msg.event[1].type
        /\ msg.back[1].id = msg.event[1].id
        /\ msg.back[1].retry = msg.event[1].retry

-----------------------------------------------------------------------------
(* C15: a Message with only data set formats as "data:" + data + "\n\n",   *)
(* for every data that is one line at most, the empty string included.     *)

LineBreakFree(t) == \A i \in 1..Len(t) : t[i] \notin {"\n", "\r"}

C15_DataOnly ==
    (/\ msg.text # <<>>
     /\ msg.event[1].type = <<>> /\ msg.event[1].id = <<>> /\ msg.event[1].retry = <<>>
     /\ LineBreakFree(msg.event[1].data))
        => msg.text[1] = <<"d", "a", "t", "a", ":">> \o msg.event[1].data \o <<"\n", "\n">>

-----------------------------------------------------------------------------
(* C16: the block of a Message is, in this order, "event:<type>" iff type  *)
(* is set, one "data:" line per line of data, "id:<id>" iff id is set,     *)
(* "retry:<retry>" iff retry is set (0 included), joined with "\n" and     *)
(* ended with "\n\n".  Stated for a type and an id that are not "".        *)

C16_Lines(e) ==
    (IF e.type # <<>> THEN <<<<"e", "v", "e", "n", "t", ":">> \o e.type[1]>> ELSE <<>>)
    \o [i \in 1..Len(SplitLines(e.data)) |->
            <<"d", "a", "t", "a", ":">> \o SplitLines(e.data)[i]]
    \o (IF e.id # <<>> THEN <<<<"i", "d", ":">> \o e.id[1]>> ELSE <<>>)
    \o (IF e.retry # <<>> THEN <<<<"r", "e", "t", "r", "y", ":">> \o IntStr(e.retry[1])>>
        ELSE <<>>)

C16_BlockLayout ==
    (/\ msg.text # <<>>
     /\ msg.event[1].type # <<<<>>>>
     /\ msg.event[1].id # <<<<>>>>)
        => msg.text[1] = Join(C16_Lines(msg.event[1]), <<"\n">>) \o <<"\n", "\n">>

-----------------------------------------------------------------------------
(* C17: a call of publish or control is one transport publish on the       *)
(* channel given, carrying the envelope with the set fields only (or the   *)
(* control envelope); the message is queued for the sessions subscribed to *)
(* that channel and for no other, and the step itself changes no session's *)
(* output, position or subscription.                                       *)

C17_Payloads ==
    {[data |-> T_thing, type |-> T_example], [data |-> T_whee, id |-> T_abc]}
    \cup {"sse-control" :> c : c \in {T_disconnect, T_healthcheck, T_notsupported}}
    \cup {"foo" :> T_abc}

C17_Step ==
    published' # published =>
        \E c \in Channels, p \in C17_Payloads :
            /\ published' = [published EXCEPT ![c] = @ + 1]
            /\ \A s \in Sessions :
                /\ queue'[s] = IF Len(subs[s]) > Len(unsubs[s]) /\ chan[s] = c
                               THEN Append(queue[s], [type |-> "message", data |-> p])
                               ELSE queue[s]
                /\ pc'[s] = pc[s] /\ out'[s] = out[s] /\ pulled'[s] = pulled[s]
                /\ subs'[s] = subs[s] /\ unsubs'[s] = unsubs[s]
                /\ outcome'[s] = outcome[s]

C17_PublishReachesItsChannel == [][C17_Step]_vars

\* A session on "sse" that is still waiting, with nothing queued, after a
\* disconnect (or anything else) was published on "garden" and an event on "sse".
C17_Witness ==
    \E s \in Sessions :
        /\ kind[s] = "blocks" /\ chan[s] = T_sse
        /\ published = (T_sse :> 1) @@ (T_garden :> 1)
        /\ pc[s] = "pull" /\ queue[s] = <<>>
        /\ Len(pulled[s]) = 2
        /\ out[s] = <<B_thing>>

-----------------------------------------------------------------------------
(* C18: when the unsubscribe of the cleanup fails with ConnectionError the *)
(* session ends as it would have with an unsubscribe that succeeded (stop, *)
(* close, or the error of the pull or of the decoding); when it fails with *)
(* another error, that error is what the caller gets, also when the loop   *)
(* was left by an earlier error.                                           *)

\* Session s ends in this step, and why it left the loop.
Ends(s) == pc[s] # "done" /\ pc'[s] = "done" /\ unsubs'[s] # unsubs[s]

LeftBy(s) ==
    IF pc[s] = "loop" THEN "stop"
    ELSE IF pc[s] = "yielded" THEN "closed"
    ELSE IF pulled'[s] = pulled[s] THEN "error:pull"
    ELSE IF kind[s] = "blocks" /\ CarriesCommand(Returned(s), T_disconnect) THEN "stop"
    ELSE "error:decode"

C18_Step ==
    \A s \in Sessions :
        Ends(s) =>
            /\ cleanup'[s] \in {"ok", "ConnectionError", "error"}
            /\ cleanup'[s] \in {"ok", "ConnectionError"} => outcome'[s] = LeftBy(s)
            /\ cleanup'[s] = "error" => outcome'[s] = "error:unsubscribe"

C18_UnsubscribeErrors == [][C18_Step]_vars

\* The pull raised and the unsubscribe raised ConnectionError: the caller gets
\* the error of the pull.
C18_Witness ==
    \E s \in Sessions :
        /\ cleanup[s] = "ConnectionError"
        /\ outcome[s] = "error:pull"
        /\ unsubs[s] = <<chan[s]>>

-----------------------------------------------------------------------------
(* C19: an error raised by a pull, or by decoding a payload that is        *)
(* neither an Event envelope nor a control envelope, ends the session with *)
(* an error for its caller: no chunk for that message, none afterwards,    *)
(* one unsubscribe.                                                        *)

Undecodable(n) ==
    /\ n.type = "message"
    /\ "sse-control" \notin DOMAIN n.data
    /\ ~("data" \in DOMAIN n.data /\ DOMAIN n.data \subseteq {"data", "type", "id", "retry"})

C19_Step ==
    \A s \in Sessions :
        /\ (PullReturns(s) /\ Undecodable(Returned(s)))
              => /\ pc'[s] = "done"
                 /\ outcome'[s] \in {"error:decode", "error:unsubscribe"}
                 /\ out'[s] = out[s] /\ body'[s] = body[s]
                 /\ unsubs'[s] = <<chan[s]>>
        /\ (Ends(s) /\ pc[s] = "pull" /\ pulled'[s] = pulled[s])
              => /\ outcome'[s] \in {"error:pull", "error:unsubscribe"}
                 /\ out'[s] = out[s] /\ body'[s] = body[s]
                 /\ unsubs'[s] = <<chan[s]>>
        /\ pc[s] = "done"
              => /\ pc'[s] = "done" /\ out'[s] = out[s] /\ body'[s] = body[s]
                 /\ pulled'[s] = pulled[s] /\ unsubs'[s] = unsubs[s]
                 /\ outcome'[s] = outcome[s]

C19_ErrorsEndTheStream == [][C19_Step]_vars

\* An event was emitted, then a payload {"foo": "abc"} ended the session.
C19_Witness ==
    \E s \in Sessions :
        /\ kind[s] = "blocks"
        /\ Len(pulled[s]) = 3
        /\ Undecodable(pulled[s][3])
        /\ outcome[s] = "error:decode"
        /\ out[s] = <<B_thing>>
        /\ unsubs[s] = <<chan[s]>>

-----------------------------------------------------------------------------
(* C20: a session holds and emits only what was published on its channel   *)
(* while it was subscribed, each message once: its handle starts with no   *)
(* message whatever was published before, a publish while it is not        *)
(* subscribed leaves it nothing, each pull takes the oldest notification   *)
(* off the handle, and after the unsubscribe nothing is held or emitted.   *)

IsMessage(n) == n.type = "message"
MessagesIn(seq) == Len(SelectSeq(seq, IsMessage))

C20_State ==
    \A s \in Sessions :
        /\ MessagesIn(pulled[s]) + MessagesIn(queue[s])
              <= (IF chan[s] \in Channels THEN published[chan[s]] ELSE 0)
        /\ Len(EventBlocks(s)) <= Len(PulledEvents(s))
        /\ (pc[s] = "done" \/ subs[s] = <<>>) => queue[s] = <<>>

C20_Step ==
    \A s \in Sessions :
        /\ subs'[s] # subs[s] => (MessagesIn(queue'[s]) = 0 /\ pulled'[s] = <<>>)
        /\ (published' # published /\ ~(Len(subs[s]) > Len(unsubs[s])))
              => queue'[s] = queue[s]
        /\ PullReturns(s)
              => /\ Returned(s) = queue[s][1]
                 /\ pc'[s] = "done" \/ queue'[s] = Tail(queue[s])
        /\ pc[s] = "done" => (out'[s] = out[s] /\ queue'[s] = <<>>)

C20_AtMostOnceWhileSubscribed == [](C20_State) /\ [][C20_Step]_vars

\* Two messages were published on the session's channel; the session, still
\* subscribed and with nothing queued, pulled and emitted one: the other was
\* published before it subscribed.
C20_Witness ==
    \E s \in Sessions :
        /\ kind[s] = "blocks"
        /\ published[chan[s]] = 2
        /\ Len(subs[s]) > Len(unsubs[s])
        /\ pc[s] = "pull" /\ queue[s] = <<>>
        /\ Len(pulled[s]) = 2
        /\ out[s] = <<B_whee>>

-----------------------------------------------------------------------------
(* C21: a notification whose kind is not "message" (the acknowledgement of *)
(* the subscribe) gives no output and no error and does not end the        *)
(* session: a blocks() session goes back to the oracle test, a messages()  *)
(* session to its next pull, and the notification is gone from the handle. *)

C21_Step ==
    \A s \in Sessions :
        (PullReturns(s) /\ Returned(s).type # "message")
            => /\ out'[s] = out[s] /\ body'[s] = body[s]
               /\ outcome'[s] = "none"
               /\ unsubs'[s] = <<>>
               /\ pc'[s] = IF kind[s] = "blocks" THEN "loop" ELSE "pull"
               /\ queue'[s] = Tail(queue[s])

C21_OtherKindsDiscarded == [][C21_Step]_vars

\* The acknowledgement was pulled and passed over; the event after it was emitted.
C21_Witness ==
    \E s \in Sessions :
        /\ kind[s] = "messages"
        /\ Len(pulled[s]) = 2
        /\ pulled[s][1] = [type |-> "subscribe", data |-> [count |-> 1]]
        /\ CarriesEvent(pulled[s][2])
        /\ out[s] = <<B_whee>>
        /\ unsubs[s] = <<>>

-----------------------------------------------------------------------------
(* C22: every health-check chunk a session emits is ":" + the configured   *)
(* text + "\n", and every line of it begins with ":", for every configured *)
(* text.                                                                   *)

\* A line of the chunk starts at position i: at 1, after "\n", or after a "\r"
\* that is not followed by "\n".
LineStartsAt(chunk, i) ==
    \/ i = 1
    \/ chunk[i - 1] = "\n"
    \/ chunk[i - 1] = "\r" /\ chunk[i] # "\n"

EveryLineIsComment(chunk) ==
    \A i \in 1..Len(chunk) : LineStartsAt(chunk, i) => chunk[i] = ":"

C22_ChunkIsComment ==
    \A s \in Sessions :
        \A i \in 1..Len(out[s]) :
            out[s][i][1] = ":"
                => /\ out[s][i] = <<":">> \o cfg.hc[1] \o <<"\n">>
                   /\ EveryLineIsComment(out[s][i])

-----------------------------------------------------------------------------
(* C23: how often one streamed request consults the termination oracle.    *)

\* The counts of session s, where the run follows them.
OracleCalls(s) == calls[s][1].oracle
Pulls(s) == calls[s][1].pulls

\* Session s is a streamed request over blocks() whose calls are counted.
C23_Followed(s) ==
    /\ calls[s] # <<>>
    /\ kind[s] = "blocks"
    /\ resp[s] = StreamedResponse

\* Session s ended because the oracle said done at the head of the loop: it
\* stopped, and not on a disconnect command.
C23_StoppedOnOracle(s) ==
    /\ pc[s] = "done"
    /\ outcome[s] = "stop"
    /\ ~(pulled[s] # <<>> /\ CarriesCommand(Last(pulled[s]), T_disconnect))

\* Session s ended in another way, known from its outcome.
C23_StoppedElsewhere(s) ==
    /\ pc[s] = "done"
    /\ \/ outcome[s] \in {"closed", "error:pull", "error:decode"}
       \/ /\ outcome[s] = "stop"
          /\ pulled[s] # <<>>
          /\ CarriesCommand(Last(pulled[s]), T_disconnect)

\* C23 as stated: a stream whose every pull returned an event, that emitted
\* N event blocks and then stopped on the oracle, consulted it N + 3 times,
\* in every configuration.
C23_SameInEveryConfiguration ==
    \A s \in Sessions :
        (/\ C23_Followed(s)
         /\ C23_StoppedOnOracle(s)
         /\ Pulls(s) = Len(PulledEvents(s)))
            => OracleCalls(s) = Len(EventBlocks(s)) + 3

\* The calls before the loop: the endpoint's, and the one of line 240 when
\* neither a timeout nor a health-check text is configured.
C23_BeforeLoop == 1 + (IF cfg.timeout = <<>> /\ cfg.hc = <<>> THEN 1 ELSE 0)

\* C23, amended: the endpoint consults the oracle once; blocks() consults it
\* once more before the loop only when neither SSE_TIMEOUT nor a health-check
\* text is configured; then it is consulted exactly once before every pull,
\* pulls that time out or return the subscribe acknowledgement included.  A
\* stream that made P pulls and stopped on the oracle consulted it P + 3
\* times in that configuration and P + 2 times in every other.
C23_OncePerPull ==
    \A s \in Sessions :
        C23_Followed(s) =>
            /\ pc[s] = "created" => OracleCalls(s) = 1 /\ Pulls(s) = 0
            /\ pc[s] \in {"loop", "yielded"} => OracleCalls(s) = C23_BeforeLoop + Pulls(s)
            /\ pc[s] = "pull" => OracleCalls(s) = C23_BeforeLoop + Pulls(s) + 1
            /\ C23_StoppedOnOracle(s) => OracleCalls(s) = C23_BeforeLoop + Pulls(s) + 1
            /\ C23_StoppedElsewhere(s) => OracleCalls(s) = C23_BeforeLoop + Pulls(s)

\* A stream with a health-check text emitted one event block in two pulls and
\* stopped on the oracle, which it consulted four times.
C23_Witness ==
    \E s \in Sessions :
        /\ C23_Followed(s)
        /\ C23_StoppedOnOracle(s)
        /\ cfg.hc = <<T_HC>>
        /\ out[s] = <<B_thing>>
        /\ Pulls(s) = 2
        /\ OracleCalls(s) = 4

-----------------------------------------------------------------------------
(* C24: one disconnect command published on a channel ends every session   *)
(* subscribed to that channel at that moment and no other session, and     *)
(* leaves the channel open to later subscribers.                           *)

C24_IsDisconnect(n) == CarriesCommand(n, T_disconnect)

\* A disconnect command waits in the queue of session s.
C24_Queued(s) == \E i \in 1..Len(queue[s]) : C24_IsDisconnect(queue[s][i])

\* This step appends a disconnect command to the queue of session s.
C24_Gets(s) ==
    /\ Len(queue'[s]) = Len(queue[s]) + 1
    /\ C24_IsDisconnect(queue'[s][Len(queue'[s])])
    /\ \A i \in 1..Len(queue[s]) : queue'[s][i] = queue[s][i]

\* The publication reaches every session that holds a subscription on the
\* channel and touches no other; by itself it ends nothing.
C24_FanOut ==
    (\E s \in Sessions : C24_Gets(s)) =>
        \E c \in Channels :
            /\ published'[c] = published[c] + 1
            /\ \A t \in Sessions :
                /\ IF Len(subs[t]) > Len(unsubs[t]) /\ chan[t] = c
                   THEN C24_Gets(t)
                   ELSE queue'[t] = queue[t]
                /\ pc'[t] = pc[t] /\ out'[t] = out[t] /\ unsubs'[t] = unsubs[t]

\* The session that pulls the command ends on it: it emits nothing further
\* and unsubscribes from its channel.
C24_EndsOnPull(s) ==
    (kind[s] = "blocks" /\ PullReturns(s) /\ C24_IsDisconnect(Returned(s))) =>
        /\ pc'[s] = "done"
        /\ out'[s] = out[s]
        /\ body'[s] = body[s]
        /\ unsubs'[s] = Append(unsubs[s], chan[s])

\* A session that has ended emits nothing and unsubscribes no more.
C24_Final(s) ==
    pc[s] = "done" =>
        pc'[s] = "done" /\ out'[s] = out[s] /\ unsubs'[s] = unsubs[s]

\* Where the oracle is not configured and no pull fails, a session ends only
\* on a disconnect command it pulled or on the close of its client: never on
\* what happens on a channel it did not subscribe to.
C24_OwnEnd(s) ==
    (pc[s] # "done" /\ pc'[s] = "done") =>
        \/ PullReturns(s) /\ C24_IsDisconnect(Returned(s))
        \/ pc[s] = "yielded" /\ clientGone[s]

\* A session that subscribes starts from the acknowledgement alone: no
\* command published before is waiting for it.
C24_Fresh(s) ==
    subs'[s] # subs[s] =>
        /\ Len(queue'[s]) = 1
        /\ queue'[s][1].type = "subscribe"
        /\ pulled'[s] = <<>>

C24_Step ==
    /\ C24_FanOut
    /\ \A s \in Sessions :
        C24_EndsOnPull(s) /\ C24_Final(s) /\ C24_OwnEnd(s) /\ C24_Fresh(s)

\* Under fair scheduling the session reaches the command and ends, having
\* unsubscribed exactly once.
C24_Live ==
    \A s \in Sessions :
        (kind[s] = "blocks" /\ C24_Queued(s))
            ~> (pc[s] = "done" /\ unsubs[s] = <<chan[s]>>)

\* C24: a disconnect command published on channel c is queued for every
\* session subscribed to c at that moment and for no other session; each of
\* them ends when it pulls the command, emitting nothing further and
\* unsubscribing exactly once, and under fair scheduling it does pull it;
\* no session ends on a command of another channel; a session that
\* subscribes to c afterwards starts from a fresh handle and streams.
C24_DisconnectEndsItsChannel == [][C24_Step]_vars /\ C24_Live

\* One session ended on the disconnect command of the default channel; the
\* other subscribed to the same channel afterwards and streams an event that
\* was published after the command.
C24_Witness ==
    \E s, t \in Sessions :
        /\ s # t
        /\ chan[s] = T_sse /\ chan[t] = T_sse
        /\ pc[s] = "done" /\ outcome[s] = "stop"
        /\ Len(pulled[s]) = 2 /\ C24_IsDisconnect(pulled[s][2])
        /\ out[s] = <<>>
        /\ unsubs[s] = <<T_sse>>
        /\ pc[t] = "loop"
        /\ Len(pulled[t]) = 2 /\ CarriesEvent(pulled[t][2])
        /\ out[t] = <<B_thing>>
        /\ body[t] = B_thing
        /\ queue[t] = <<>>
        /\ published[T_sse] = 2

=============================================================================
